---------------------------- MODULE Spec2Model ----------------------------
(***************************************************************************)
(* cap-reformer: a capacitor reformer that ramps a bench power supply      *)
(* (RK6006, Modbus) while watching the leakage current on a Bluetooth      *)
(* multimeter (OWON OW18E).                                                *)
(*                                                                         *)
(* Modelled: main (the coordinator), the BT message stream task, the logic *)
(* task running reform_cap, the Ctrl-C handler, the tokio watch channel    *)
(* and the CancellationToken between them, and the telemetry decoder.      *)
(*                                                                         *)
(* Time is counted in ticks of 500 ms.  Voltages are integers in units of  *)
(* the smallest step, currents are rationals num/den in milliamps.         *)
(***************************************************************************)
EXTENDS Integers, Sequences, FiniteSets, TLC

(***************************************************************************)
(* Bounds of the model                                                     *)
(***************************************************************************)
MaxRated == 2
MaxStep == 2
MaxRaw == 3
MaxSent == 3
MaxExtra == 2
MaxLimit == 4

(***************************************************************************)
(* Program constants, in ticks of 500 ms                                   *)
(***************************************************************************)
SettleTicks == 1
DebounceTicks == 2
TimeoutTicks == 4
ElapsedCap == DebounceTicks + 1

Min(a, b) == IF a < b THEN a ELSE b
Max(a, b) == IF a > b THEN a ELSE b

\* Option<T>
None == [some |-> FALSE]
Some(x) == [some |-> TRUE, val |-> x]

NoMode == "NoMode"

(***************************************************************************)
(* owon/mode.rs: the closed enumeration of mode codes                      *)
(***************************************************************************)
ModeTable ==
    { <<61464, "DcMillivolt">>, <<61472, "DcVolt">>, <<61528, "AcMillivolt">>,
      <<61536, "AcVolt">>, <<61584, "DcMicroAmpere">>, <<61592, "DcMilliAmpere">>,
      <<61600, "DcAmpere">>, <<61648, "AcMicroAmpere">>, <<61656, "AcMilliAmpere">>,
      <<61664, "AcAmpere">>, <<61728, "Ohm">>, <<61736, "KiloOhm">>,
      <<61744, "MegaOhm">>, <<61768, "NanoFarad">>, <<61776, "MicroFarad">>,
      <<61784, "MilliFarad">>, <<61792, "Farad">>, <<61856, "Hertz">>,
      <<61864, "KiloHertz">>, <<61872, "MegaHertz">>, <<61920, "DutyCyclePercent">>,
      <<61984, "DegreesCelsius">>, <<62048, "DegreesFahrenheit">>,
      <<62112, "DiodeVolt">>, <<62176, "ContinuityOhm">>, <<62304, "NearField">> }

ModeCodes == { e[1] : e \in ModeTable }

\* bytemuck::checked::try_pod_read_unaligned on a u16: the variant or None
ModeOfCode(code) ==
    IF code \in ModeCodes
    THEN (CHOOSE e \in ModeTable : e[1] = code)[2]
    ELSE NoMode

(***************************************************************************)
(* owon/reading.rs: RawMessage, Reading::new, parse, Reading::value        *)
(***************************************************************************)
\* faulty variant of RawMessage: the 16-bit fields are read big endian
RawMessage_big_endian(message) ==
    IF Len(message) < 6
    THEN None
    ELSE Some(
         [ mode_and_divider |-> 256 * message[1] + message[2],
           flags            |-> message[3],
           unknown          |-> message[4],
           raw_value        |-> 256 * message[5] + message[6] ])

\* binrw, little endian: u16, u8, u8, u16 read from the front of the slice
RawMessage(message) ==
    IF Len(message) < 6
    THEN None
    ELSE Some(
         [ mode_and_divider |-> message[1] + 256 * message[2],
           flags            |-> message[3],
           unknown          |-> message[4],
           raw_value        |-> message[5] + 256 * message[6] ])

RawMode(raw) == raw.mode_and_divider - (raw.mode_and_divider % 8)

RawDivider(raw) == raw.mode_and_divider % 8

Bit(x, k) == (x \div (2 ^ k)) % 2 = 1

ReadingNew(raw) ==
    IF ModeOfCode(RawMode(raw)) = NoMode
    THEN None
    ELSE Some(
         [ mode        |-> ModeOfCode(RawMode(raw)),
           divider     |-> RawDivider(raw),
           raw_value   |-> raw.raw_value,
           hold        |-> Bit(raw.flags, 0),
           relative    |-> Bit(raw.flags, 1),
           autoranging |-> Bit(raw.flags, 2),
           low_battery |-> Bit(raw.flags, 3) ])

parse(message) ==
    IF ~RawMessage(message).some
    THEN None
    ELSE ReadingNew(RawMessage(message).val)

\* faulty variant of value: the sentinel is compared without masking the sign
value_unmasked(reading) ==
    LET num == reading.raw_value % 32768
    IN  IF reading.raw_value = 32767
        THEN [nan |-> TRUE, num |-> 0, den |-> 1]
        ELSE [ nan |-> FALSE,
               num |-> IF reading.raw_value \div 32768 = 1 THEN 0 - num ELSE num,
               den |-> 10 ^ reading.divider ]

\* Reading::value: NaN for the sentinel, else the rational +-m / 10^divider
value(reading) ==
    LET num == reading.raw_value % 32768
    IN  IF num = 32767
        THEN [nan |-> TRUE, num |-> 0, den |-> 1]
        ELSE [ nan |-> FALSE,
               num |-> IF reading.raw_value \div 32768 = 1 THEN 0 - num ELSE num,
               den |-> 10 ^ reading.divider ]

\* faulty variant of FloatLt: `<=` for `<`
FloatLt_le(a, b) == (~a.nan) /\ a.num <= b * a.den

\* f64 `a < b` for a measured value a and an integral threshold b:
\* every comparison with NaN is false
FloatLt(a, b) == (~a.nan) /\ a.num < b * a.den


(***************************************************************************)
(* Inputs: run configurations and telemetry frames                         *)
(***************************************************************************)
\* Config (main.rs): voltages in steps, currents in milliamps
Configs ==
    [ rated_voltage     : 0..MaxRated,
      voltage_step      : 1..MaxStep,
      reform_current    : {2},
      finish_current    : {1},
      current_limit     : {3},
      psu_current_limit : {30} ]

\* the six bytes of a frame, little endian
Frame(mode_and_divider, flags, raw) ==
    << mode_and_divider % 256, mode_and_divider \div 256, flags, 0,
       raw % 256, raw \div 256 >>

\* DC mA readings 0..MaxRaw, the out-of-range sentinel, DC V readings of 1 V
\* and of 9 V, a frame with an unknown mode code and a truncated frame
SampleFrames ==
    { Frame(61592, 0, r) : r \in 0..MaxRaw }
        \cup { Frame(61592, 4, 32767), Frame(61472, 4, 1), Frame(61472, 4, 9),
               Frame(61440, 0, 1), <<152, 240, 0>> }

VARIABLES
    cfg,            \* Config
    main_pc,        \* position of main
    exit_status,    \* process exit status once main has returned
    cancel,         \* CancellationToken: cancelled?
    bt_pc,          \* position of the BT message stream task
    bt_result,      \* what awaiting bt_task yields
    timeout_timer,  \* ticks since read_notification started waiting
    chan,           \* watch channel: value, and whether bt_rx has not seen it
    logic_pc,       \* position of the logic task
    phase,          \* control state of reform_cap
    res,            \* what reform_cap returned
    logic_result,   \* what awaiting logic_task yields
    curr_voltage,   \* reform_cap: curr_voltage
    elapsed,        \* reform_cap: last_voltage_increase.elapsed(), saturating
    sleep_timer,    \* ticks left of the running tokio::time::sleep
    psu_log,        \* the commands issued to the PSU, in order
    first_done,     \* the task whose future completed first
    reported,       \* the select! branch main took
    diag,           \* diagnostics printed on stderr
    sent,           \* channel harness: the readings sent, in order
    got,            \* channel harness: the readings received, with their index
    frame,          \* decoder harness: the bytes of a notification
    dec_pc,         \* decoder harness: position
    decoded,        \* decoder harness: what parse returned
    measured        \* decoder harness: what Reading::value returned

vars == << cfg, main_pc, exit_status, cancel, bt_pc, bt_result,
           timeout_timer, chan, logic_pc, phase, res, logic_result,
           curr_voltage, elapsed, sleep_timer, psu_log, first_done,
           reported, diag, sent, got, frame, dec_pc, decoded, measured >>

\* the variables of the harnesses; the program leaves them alone
aux_vars == << sent, got, frame, dec_pc, decoded, measured >>

\* the harnesses at rest
AuxIdle ==
    /\ sent = << >>
    /\ got = << >>
    /\ frame = << >>
    /\ dec_pc = "idle"
    /\ decoded = None
    /\ measured = None

main_vars == << main_pc, exit_status, reported >>
bt_vars == << bt_pc, bt_result, timeout_timer >>
logic_vars == << logic_pc, phase, res, logic_result, curr_voltage, elapsed,
                 sleep_timer, psu_log >>

Init ==
    /\ cfg \in Configs
    /\ main_pc = "open_psu"
    /\ exit_status = -1
    /\ cancel = FALSE
    /\ bt_pc = "idle"
    /\ bt_result = "none"
    /\ timeout_timer = 0
    /\ chan = [value |-> None, unseen |-> FALSE]
    /\ logic_pc = "idle"
    /\ phase = "Idle"
    /\ res = "none"
    /\ logic_result = "none"
    /\ curr_voltage = 0
    /\ elapsed = 0
    /\ sleep_timer = 0
    /\ psu_log = << >>
    /\ first_done = "none"
    /\ reported = "none"
    /\ diag = {}
    /\ AuxIdle

\* watch channel ends: bt_rx lives in main and then in reform_cap's frame,
\* reading_tx lives in the BT task's future
RxDropped == logic_pc \in {"returned", "disconnect", "done"}

\* faulty variant of TxDropped: a clone of the sender outlives the BT task
TxDropped_never == FALSE

TxDropped == bt_pc = "done"

\* CancellationToken::cancel
Cancel == cancel' = TRUE

(***************************************************************************)
(* The clock: one tick of 500 ms                                           *)
(***************************************************************************)
\* the clocks that are running: the Instant of reform_cap, the sleep of
\* read_notification
ElapsedRuns ==
    logic_pc \in {"sleep1", "sleep2", "ramp_top", "ramp_wait",
                  "ramp_set_voltage"}
TimeoutRuns == main_pc = "start_bt" \/ bt_pc = "read"

Tick ==
    /\ main_pc # "done"
    /\ \/ ElapsedRuns /\ elapsed < ElapsedCap
       \/ sleep_timer > 0
       \/ TimeoutRuns /\ timeout_timer < TimeoutTicks
    /\ elapsed' = IF ElapsedRuns THEN Min(elapsed + 1, ElapsedCap) ELSE elapsed
    /\ sleep_timer' = Max(sleep_timer - 1, 0)
    /\ timeout_timer' = IF TimeoutRuns
                        THEN Min(timeout_timer + 1, TimeoutTicks)
                        ELSE timeout_timer
    /\ UNCHANGED << aux_vars, cfg, main_pc, exit_status, cancel, bt_pc,
                    bt_result, chan, logic_pc, phase, res, logic_result,
                    curr_voltage, psu_log, first_done, reported, diag >>

(***************************************************************************)
(* main.rs:68-71  the Ctrl-C handler                                       *)
(***************************************************************************)
CtrlC ==
    /\ main_pc # "done"
    /\ ~cancel
    /\ Cancel
    /\ UNCHANGED << aux_vars, cfg, main_vars, bt_vars, chan, logic_vars, first_done,
                    diag >>

(***************************************************************************)
(* owon.rs:147-170  read_notification: the outcomes its select! can yield. *)
(* msg is what notifications.next() has ready: "pending", "end" (the       *)
(* stream finished) or a frame.  select! takes any branch that is ready.   *)
(***************************************************************************)
Messages ==
    { [kind |-> "pending"], [kind |-> "end"] }
        \cup { [kind |-> "frame", bytes |-> f] : f \in SampleFrames }

BreakFlow(print) == [flow |-> "Break", reading |-> None, print |-> print]

\* the branch `message = notifications.next()`, lines 157-167
NotificationFlow(msg) ==
    IF msg.kind = "end"
    THEN BreakFlow({})
    ELSE IF parse(msg.bytes).some
         THEN [flow |-> "Continue", reading |-> parse(msg.bytes), print |-> {}]
         ELSE BreakFlow({"Invalid message received"})

\* faulty variant of ReadNotification: the select! has no cancel.cancelled() branch
ReadNotification_no_cancel(msg) ==
    (IF timeout_timer >= TimeoutTicks
     THEN {BreakFlow({"Timeout waiting for notification"})} ELSE {})
    \cup
    (IF msg.kind # "pending" THEN {NotificationFlow(msg)} ELSE {})

ReadNotification(msg) ==
    (IF cancel THEN {BreakFlow({})} ELSE {})
    \cup
    (IF timeout_timer >= TimeoutTicks
     THEN {BreakFlow({"Timeout waiting for notification"})} ELSE {})
    \cup
    (IF msg.kind # "pending" THEN {NotificationFlow(msg)} ELSE {})

(***************************************************************************)
(* main.rs:60-122  main, the coordinator                                   *)
(***************************************************************************)
\* main returns Err(e): the runtime prints it and the process exits with 1
MainFails(e) ==
    /\ main_pc' = "done"
    /\ exit_status' = 1
    /\ diag' = diag \cup {e}

\* line 76: open_psu_modbus(...).await?
MainOpenPsu ==
    /\ main_pc = "open_psu"
    /\ \/ /\ main_pc' = "start_bt"
          /\ timeout_timer' = 0
          /\ UNCHANGED << exit_status, diag >>
       \/ /\ MainFails("Error: PsuModbusError")
          /\ UNCHANGED timeout_timer
    /\ UNCHANGED << aux_vars, cfg, cancel, bt_pc, bt_result, chan,
                    logic_vars, first_done, reported >>

\* line 80, owon.rs:33-145: connect, wait for the initial reading, spawn bt_task
MainStartBt ==
    /\ main_pc = "start_bt"
    /\ \/ /\ MainFails("Error: Btle")
          /\ UNCHANGED << bt_pc, timeout_timer >>
       \/ \E msg \in Messages : \E f \in ReadNotification(msg) :
            IF f.flow = "Break"
            THEN /\ MainFails("Error: InitialNotificationDidNotArrive")
                 /\ UNCHANGED << bt_pc, timeout_timer >>
            ELSE IF f.reading.val.mode # "DcMilliAmpere"
            THEN /\ MainFails("Error: MultimeterInWrongMode")
                 /\ UNCHANGED << bt_pc, timeout_timer >>
            ELSE /\ main_pc' = "spawn_logic"
                 /\ bt_pc' = "read"
                 /\ timeout_timer' = 0
                 /\ UNCHANGED << exit_status, diag >>
    /\ UNCHANGED << aux_vars, cfg, cancel, bt_result, chan, logic_vars,
                    first_done, reported >>

\* lines 82-90: tokio::spawn of the logic task
MainSpawnLogic ==
    /\ main_pc = "spawn_logic"
    /\ main_pc' = "select"
    /\ logic_pc' = "start"
    /\ UNCHANGED << aux_vars, cfg, exit_status, cancel, bt_vars, chan, phase,
                    res, logic_result, curr_voltage, elapsed, sleep_timer,
                    psu_log, first_done, reported, diag >>

\* what the match on a JoinHandle's output prints, lines 94-102 and 107-115
JoinDiag(task, result) ==
    IF result = "err" THEN {"Error in " \o task \o " task"}
    ELSE IF result = "panic" THEN {"Join error in " \o task \o " task"}
    ELSE {}

\* faulty variant of MainSelectBt: the token is not cancelled before the second await
MainSelectBt_no_cancel ==
    /\ main_pc = "select"
    /\ bt_pc = "done"
    /\ diag' = diag \cup JoinDiag("BT", bt_result)
    /\ reported' = "bt"
    /\ main_pc' = "await_logic"
    /\ UNCHANGED << aux_vars, cfg, exit_status, cancel, bt_vars, chan, logic_vars,
                    first_done >>

\* lines 93-103: select! takes the bt_task branch, then cancels
MainSelectBt ==
    /\ main_pc = "select"
    /\ bt_pc = "done"
    /\ diag' = diag \cup JoinDiag("BT", bt_result)
    /\ Cancel
    /\ reported' = "bt"
    /\ main_pc' = "await_logic"
    /\ UNCHANGED << aux_vars, cfg, exit_status, bt_vars, chan, logic_vars, first_done >>

\* lines 106-116: select! takes the logic_task branch, then cancels
MainSelectLogic ==
    /\ main_pc = "select"
    /\ logic_pc = "done"
    /\ diag' = diag \cup JoinDiag("logic", logic_result)
    /\ Cancel
    /\ reported' = "logic"
    /\ main_pc' = "await_bt"
    /\ UNCHANGED << aux_vars, cfg, exit_status, bt_vars, chan, logic_vars, first_done >>

\* lines 104 and 121: `let _ = logic_task.await;` then Ok(())
MainJoinLogic ==
    /\ main_pc = "await_logic"
    /\ logic_pc = "done"
    /\ main_pc' = "done"
    /\ exit_status' = 0
    /\ UNCHANGED << aux_vars, cfg, cancel, bt_vars, chan, logic_vars,
                    first_done, reported, diag >>

\* lines 117 and 121: `let _ = bt_task.await;` then Ok(())
MainJoinBt ==
    /\ main_pc = "await_bt"
    /\ bt_pc = "done"
    /\ main_pc' = "done"
    /\ exit_status' = 0
    /\ UNCHANGED << aux_vars, cfg, cancel, bt_vars, chan, logic_vars,
                    first_done, reported, diag >>

(***************************************************************************)
(* owon.rs:119-142  the BT message stream task                             *)
(***************************************************************************)
BtDone(result) ==
    /\ bt_pc' = "done"
    /\ bt_result' = result
    /\ first_done' = IF first_done = "none" THEN "bt" ELSE first_done

\* lines 121-127: a reading arrives and is sent on the watch channel
BtSend ==
    /\ bt_pc = "read"
    /\ \E msg \in Messages : \E f \in ReadNotification(msg) :
         /\ f.flow = "Continue"
         /\ IF RxDropped
            THEN /\ bt_pc' = "is_connected"
                 /\ timeout_timer' = 0
                 /\ UNCHANGED chan
            ELSE /\ chan' = [value |-> f.reading, unseen |-> TRUE]
                 /\ bt_pc' = "read"
                 /\ timeout_timer' = 0
         /\ diag' = diag \cup f.print
    /\ UNCHANGED << cfg, main_vars, cancel, bt_result, logic_vars,
                    first_done >>

\* the same, in the program: the harnesses stay at rest
BtReadContinue == BtSend /\ UNCHANGED aux_vars

\* lines 121-128: read_notification yields Break and the loop ends
BtReadBreakOn(msg) ==
    /\ bt_pc = "read"
    /\ \E f \in ReadNotification(msg) :
         /\ f.flow = "Break"
         /\ bt_pc' = "is_connected"
         /\ timeout_timer' = 0
         /\ diag' = diag \cup f.print
    /\ UNCHANGED << aux_vars, cfg, main_vars, cancel, bt_result, chan, logic_vars,
                    first_done >>

BtReadBreak == \E msg \in Messages : BtReadBreakOn(msg)

\* lines 132-133: device.is_connected().await?
BtIsConnected ==
    /\ bt_pc = "is_connected"
    /\ \/ BtDone("err")
       \/ BtDone("ok")
       \/ /\ bt_pc' = "disconnect"
          /\ UNCHANGED << bt_result, first_done >>
    /\ UNCHANGED << aux_vars, cfg, main_vars, cancel, timeout_timer, chan,
                    logic_vars, diag >>

\* lines 134-141: device.disconnect().await.expect(..); Ok(())
BtDisconnect ==
    /\ bt_pc = "disconnect"
    /\ \/ BtDone("ok")
       \/ BtDone("panic")
    /\ UNCHANGED << aux_vars, cfg, main_vars, cancel, timeout_timer, chan,
                    logic_vars, diag >>

(***************************************************************************)
(* main.rs:139-238  reform_cap and current_milliamps                       *)
(***************************************************************************)
PsuCommand(op, num, den) == [op |-> op, num |-> num, den |-> den]

Issue(c) == psu_log' = Append(psu_log, c)

\* reform_cap returns r
Return(r, ph) ==
    /\ res' = r
    /\ phase' = ph
    /\ logic_pc' = "returned"

\* faulty variant of BorrowAndUpdate: the value is not marked as seen
BorrowAndUpdate_unmarked == chan' = chan

\* lines 225-227: changed() has resolved with Ok and borrow_and_update()
\* marks the value of the channel as seen
BorrowAndUpdate == chan' = [chan EXCEPT !.unseen = FALSE]

\* faulty variant of CurrentMilliamps: the mode of the reading is not looked at
CurrentMilliamps_any_mode(v) ==
    IF ~v.some
    THEN [err |-> "NoBtReading", ma |-> None]
    ELSE [err |-> "none", ma |-> value(v.val)]

\* lines 226-237: the value of the channel as milliamps, or the error
CurrentMilliamps(v) ==
    IF ~v.some
    THEN [err |-> "NoBtReading", ma |-> None]
    ELSE IF v.val.mode # "DcMilliAmpere"
    THEN [err |-> "WrongReadingMode", ma |-> None]
    ELSE [err |-> "none", ma |-> value(v.val)]

\* faulty variant of DebounceOver: no hold-off after an increase
DebounceOver_none(e) == e >= 0

\* line 184: last_voltage_increase.elapsed() > Duration::from_secs(1)
DebounceOver(e) == e > DebounceTicks

\* faulty variant of NextVoltage: the step is not clamped to rated_voltage
NextVoltage_unclamped(v) == v + cfg.voltage_step

\* line 190: (curr_voltage + voltage_step).min(rated_voltage)
NextVoltage(v) == Min(v + cfg.voltage_step, cfg.rated_voltage)

\* faulty variant of RampStep: Holding is entered without looking at the voltage
RampStep_early(ma) ==
    IF ~FloatLt(ma, cfg.current_limit) THEN "abort"
    ELSE IF FloatLt(ma, cfg.reform_current) /\ DebounceOver(elapsed)
         THEN "hold"
         ELSE "stay"

\* lines 178-193: what the Ramping loop does with a measurement
RampStep(ma) ==
    IF ~FloatLt(ma, cfg.current_limit) THEN "abort"
    ELSE IF FloatLt(ma, cfg.reform_current) /\ DebounceOver(elapsed)
         THEN IF curr_voltage = cfg.rated_voltage THEN "hold" ELSE "raise"
         ELSE "stay"

\* faulty variant of HoldStep: a current equal to finish_current already completes
HoldStep_le(ma) ==
    IF ~FloatLt(ma, cfg.current_limit) THEN "abort"
    ELSE IF FloatLt_le(ma, cfg.finish_current) THEN "complete"
    ELSE "stay"

\* lines 208-216: what the Holding loop does with a measurement
HoldStep(ma) ==
    IF ~FloatLt(ma, cfg.current_limit) THEN "abort"
    ELSE IF FloatLt(ma, cfg.finish_current) THEN "complete"
    ELSE "stay"

\* lines 161-165: start the debounce clock, set_voltage(0), sleep
LogicStart ==
    /\ logic_pc = "start"
    /\ elapsed' = 0
    /\ curr_voltage' = 0
    /\ Issue(PsuCommand("set_voltage", 0, 1))
    /\ \/ /\ logic_pc' = "sleep1"
          /\ phase' = "Init"
          /\ sleep_timer' = SettleTicks
          /\ UNCHANGED res
       \/ /\ Return("PsuModbus", "Failed")
          /\ UNCHANGED sleep_timer
    /\ UNCHANGED << aux_vars, cfg, main_vars, cancel, bt_vars, chan,
                    logic_result, first_done, diag >>

\* faulty variant of LogicSetCurrent: the milliamps are passed on as amps
LogicSetCurrent_unconverted ==
    /\ logic_pc = "sleep1"
    /\ sleep_timer = 0
    /\ Issue(PsuCommand("set_current", cfg.psu_current_limit, 1))
    /\ \/ /\ logic_pc' = "sleep2"
          /\ sleep_timer' = SettleTicks
          /\ UNCHANGED << res, phase >>
       \/ /\ Return("PsuModbus", "Failed")
          /\ UNCHANGED sleep_timer
    /\ UNCHANGED << aux_vars, cfg, main_vars, cancel, bt_vars, chan,
                    logic_result, curr_voltage, elapsed, first_done, diag >>

\* lines 165-167: the sleep is over, set_current(psu_current_limit / 1000), sleep
LogicSetCurrent ==
    /\ logic_pc = "sleep1"
    /\ sleep_timer = 0
    /\ Issue(PsuCommand("set_current", cfg.psu_current_limit, 1000))
    /\ \/ /\ logic_pc' = "sleep2"
          /\ sleep_timer' = SettleTicks
          /\ UNCHANGED << res, phase >>
       \/ /\ Return("PsuModbus", "Failed")
          /\ UNCHANGED sleep_timer
    /\ UNCHANGED << aux_vars, cfg, main_vars, cancel, bt_vars, chan,
                    logic_result, curr_voltage, elapsed, first_done, diag >>

\* lines 167-170: the sleep is over, set_output(true)
LogicSetOutputOn ==
    /\ logic_pc = "sleep2"
    /\ sleep_timer = 0
    /\ Issue(PsuCommand("set_output", 1, 1))
    /\ \/ /\ logic_pc' = "ramp_top"
          /\ phase' = "Ramping"
          /\ UNCHANGED res
       \/ Return("PsuModbus", "Failed")
    /\ UNCHANGED << aux_vars, cfg, main_vars, cancel, bt_vars, chan,
                    logic_result, curr_voltage, elapsed, sleep_timer,
                    first_done, diag >>

\* lines 172-175: the cancellation check, then wait in changed()
RampTop ==
    /\ logic_pc = "ramp_top"
    /\ IF cancel
       THEN Return("ok", "Cancelled")
       ELSE /\ logic_pc' = "ramp_wait"
            /\ UNCHANGED << res, phase >>
    /\ UNCHANGED << aux_vars, cfg, main_vars, cancel, bt_vars, chan,
                    logic_result, curr_voltage, elapsed, sleep_timer, psu_log,
                    first_done, diag >>

\* lines 175-191: changed() resolves; the reading is judged
RampJudge ==
    /\ logic_pc = "ramp_wait"
    /\ chan.unseen \/ TxDropped
    /\ IF ~chan.unseen
       THEN /\ Return("BtChannelClosed", "Failed")
            /\ UNCHANGED << chan, curr_voltage, psu_log >>
       ELSE /\ BorrowAndUpdate
            /\ LET r == CurrentMilliamps(chan.value)
                   d == RampStep(r.ma)
               IN  IF r.err # "none"
                   THEN /\ Return(r.err, "Failed")
                        /\ UNCHANGED << curr_voltage, psu_log >>
                   ELSE IF d = "abort"
                   THEN /\ Return("CapCurrentLimitExceeded", "Aborted")
                        /\ UNCHANGED << curr_voltage, psu_log >>
                   ELSE IF d = "hold"
                   THEN /\ logic_pc' = "hold_top"
                        /\ phase' = "Holding"
                        /\ UNCHANGED << res, curr_voltage, psu_log >>
                   ELSE IF d = "raise"
                   THEN /\ curr_voltage' = NextVoltage(curr_voltage)
                        /\ Issue(PsuCommand("set_voltage",
                                            NextVoltage(curr_voltage), 1))
                        /\ logic_pc' = "ramp_set_voltage"
                        /\ UNCHANGED << res, phase >>
                   ELSE /\ logic_pc' = "ramp_top"
                        /\ UNCHANGED << res, phase, curr_voltage, psu_log >>
    /\ UNCHANGED << cfg, main_vars, cancel, bt_vars, logic_result,
                    elapsed, sleep_timer, first_done, diag >>

\* the same, in the program: the harnesses stay at rest
RampReading == RampJudge /\ UNCHANGED aux_vars

\* lines 191-192: set_voltage resolves; restart the debounce clock
RampSetVoltageDone ==
    /\ logic_pc = "ramp_set_voltage"
    /\ \/ /\ elapsed' = 0
          /\ logic_pc' = "ramp_top"
          /\ UNCHANGED << res, phase >>
       \/ /\ Return("PsuModbus", "Failed")
          /\ UNCHANGED elapsed
    /\ UNCHANGED << aux_vars, cfg, main_vars, cancel, bt_vars, chan,
                    logic_result, curr_voltage, sleep_timer, psu_log,
                    first_done, diag >>

\* lines 202-205: the cancellation check, then wait in changed()
HoldTop ==
    /\ logic_pc = "hold_top"
    /\ IF cancel
       THEN Return("ok", "Cancelled")
       ELSE /\ logic_pc' = "hold_wait"
            /\ UNCHANGED << res, phase >>
    /\ UNCHANGED << aux_vars, cfg, main_vars, cancel, bt_vars, chan,
                    logic_result, curr_voltage, elapsed, sleep_timer, psu_log,
                    first_done, diag >>

\* lines 205-219: changed() resolves; the reading is judged
HoldJudge ==
    /\ logic_pc = "hold_wait"
    /\ chan.unseen \/ TxDropped
    /\ IF ~chan.unseen
       THEN /\ Return("BtChannelClosed", "Failed")
            /\ UNCHANGED chan
       ELSE /\ BorrowAndUpdate
            /\ LET r == CurrentMilliamps(chan.value)
                   d == HoldStep(r.ma)
               IN  IF r.err # "none"
                   THEN Return(r.err, "Failed")
                   ELSE IF d = "abort"
                   THEN Return("CapCurrentLimitExceeded", "Aborted")
                   ELSE IF d = "complete"
                   THEN Return("ok", "Complete")
                   ELSE /\ logic_pc' = "hold_top"
                        /\ UNCHANGED << res, phase >>
    /\ UNCHANGED << cfg, main_vars, cancel, bt_vars, logic_result,
                    curr_voltage, elapsed, sleep_timer, psu_log, first_done,
                    diag >>

\* the same, in the program: the harnesses stay at rest
HoldReading == HoldJudge /\ UNCHANGED aux_vars

(***************************************************************************)
(* main.rs:83-90  the logic task around reform_cap                         *)
(***************************************************************************)
LogicDone(result) ==
    /\ logic_pc' = "done"
    /\ logic_result' = result
    /\ first_done' = IF first_done = "none" THEN "logic" ELSE first_done

\* faulty variant of LogicSetOutputOff: `res?` comes before the PSU is switched off
LogicSetOutputOff_after_res ==
    /\ logic_pc = "returned"
    /\ IF res = "ok"
       THEN /\ Issue(PsuCommand("set_output", 0, 1))
            /\ \/ /\ logic_pc' = "disconnect"
                  /\ UNCHANGED << logic_result, first_done >>
               \/ /\ logic_pc' = "done"
                  /\ logic_result' = "err"
                  /\ first_done' = IF first_done = "none" THEN "logic"
                                   ELSE first_done
       ELSE /\ logic_pc' = "done"
            /\ logic_result' = "err"
            /\ first_done' = IF first_done = "none" THEN "logic"
                             ELSE first_done
            /\ UNCHANGED psu_log
    /\ UNCHANGED << aux_vars, cfg, main_vars, cancel, bt_vars, chan, phase,
                    res, curr_voltage, elapsed, sleep_timer, diag >>

\* line 85: psu.set_output(false).await?
LogicSetOutputOff ==
    /\ logic_pc = "returned"
    /\ Issue(PsuCommand("set_output", 0, 1))
    /\ \/ /\ logic_pc' = "disconnect"
          /\ UNCHANGED << logic_result, first_done >>
       \/ LogicDone("err")
    /\ UNCHANGED << aux_vars, cfg, main_vars, cancel, bt_vars, chan, phase,
                    res, curr_voltage, elapsed, sleep_timer, diag >>

\* lines 86-89: disconnect (result ignored), then res?; Ok(())
LogicDisconnect ==
    /\ logic_pc = "disconnect"
    /\ LogicDone(IF res = "ok" THEN "ok" ELSE "err")
    /\ UNCHANGED << aux_vars, cfg, main_vars, cancel, bt_vars, chan, phase,
                    res, curr_voltage, elapsed, sleep_timer, psu_log, diag >>

(***************************************************************************)
(* The program                                                             *)
(***************************************************************************)
Main ==
    \/ MainOpenPsu \/ MainStartBt \/ MainSpawnLogic
    \/ MainSelectBt \/ MainSelectLogic \/ MainJoinLogic \/ MainJoinBt

BtTask == BtReadContinue \/ BtReadBreak \/ BtIsConnected \/ BtDisconnect

ReformCap ==
    \/ LogicStart \/ LogicSetCurrent \/ LogicSetOutputOn
    \/ RampTop \/ RampReading \/ RampSetVoltageDone
    \/ HoldTop \/ HoldReading

LogicTask == ReformCap \/ LogicSetOutputOff \/ LogicDisconnect

Next == Main \/ BtTask \/ LogicTask \/ CtrlC \/ Tick

Spec == Init /\ [][Next]_vars

(***************************************************************************)
(* The control loop on a synthetic telemetry stream: both tasks have been  *)
(* started, and a DC reading of 1.0 mA is published one second after the   *)
(* loop began to wait for it.  Apart from that, time passes only during    *)
(* the settle delays.                                                      *)
(***************************************************************************)
InitRamp ==
    /\ cfg \in Configs
    /\ cfg.rated_voltage > 0
    /\ main_pc = "select"
    /\ exit_status = -1
    /\ cancel = FALSE
    /\ bt_pc = "read"
    /\ bt_result = "none"
    /\ timeout_timer = 0
    /\ chan = [value |-> None, unseen |-> FALSE]
    /\ logic_pc = "start"
    /\ phase = "Idle"
    /\ res = "none"
    /\ logic_result = "none"
    /\ curr_voltage = 0
    /\ elapsed = 0
    /\ sleep_timer = 0
    /\ psu_log = << >>
    /\ first_done = "none"
    /\ reported = "none"
    /\ diag = {}
    /\ AuxIdle

\* one second (DebounceTicks ticks) passes and the BT task sends 1.0 mA
PacedReading ==
    /\ logic_pc \in {"ramp_wait", "hold_wait"}
    /\ bt_pc = "read"
    /\ ~chan.unseen
    /\ elapsed' = IF ElapsedRuns THEN Min(elapsed + DebounceTicks, ElapsedCap)
                  ELSE elapsed
    /\ chan' = [value |-> parse(Frame(61592, 0, 1)), unseen |-> TRUE]
    /\ timeout_timer' = 0
    /\ UNCHANGED << aux_vars, cfg, main_vars, cancel, bt_pc, bt_result, logic_pc, phase,
                    res, logic_result, curr_voltage, sleep_timer, psu_log,
                    first_done, diag >>

SettleTick == sleep_timer > 0 /\ Tick

NextRamp == LogicTask \/ PacedReading \/ SettleTick

SpecRamp == InitRamp /\ [][NextRamp]_vars

(***************************************************************************)
(* The control loop under any current limit: the synthetic stream above,   *)
(* into which the multimeter's out-of-range sentinel is sent at any time.  *)
(* current_limit is any of 0..MaxLimit, or larger than every magnitude;     *)
(* with finish_current 2 the readings of 1.0 mA complete the run.          *)
(***************************************************************************)
LimitConfigs ==
    [ rated_voltage     : 1..MaxRated,
      voltage_step      : 1..MaxStep,
      reform_current    : {2},
      finish_current    : {1, 2},
      current_limit     : (0..MaxLimit) \cup {40000},
      psu_current_limit : {30} ]

\* DC mA frames with magnitude 0x7FFF: either sign bit, dividers 0 and 7
SentinelFrames ==
    { Frame(61592 + dv, 4, r) : dv \in {0, 7}, r \in {32767, 65535} }

InitLimit ==
    /\ cfg \in LimitConfigs
    /\ main_pc = "select"
    /\ exit_status = -1
    /\ cancel = FALSE
    /\ bt_pc = "read"
    /\ bt_result = "none"
    /\ timeout_timer = 0
    /\ chan = [value |-> None, unseen |-> FALSE]
    /\ logic_pc = "start"
    /\ phase = "Idle"
    /\ res = "none"
    /\ logic_result = "none"
    /\ curr_voltage = 0
    /\ elapsed = 0
    /\ sleep_timer = 0
    /\ psu_log = << >>
    /\ first_done = "none"
    /\ reported = "none"
    /\ diag = {}
    /\ AuxIdle

\* the BT task sends a reading with the sentinel (owon.rs:124)
SentinelReading ==
    /\ logic_pc \in {"ramp_wait", "hold_wait"}
    /\ bt_pc = "read"
    /\ ~chan.unseen
    /\ \E f \in SentinelFrames :
         chan' = [value |-> parse(f), unseen |-> TRUE]
    /\ timeout_timer' = 0
    /\ UNCHANGED << aux_vars, cfg, main_vars, cancel, bt_pc, bt_result,
                    logic_pc, phase, res, logic_result, curr_voltage, elapsed,
                    sleep_timer, psu_log, first_done, diag >>

NextLimit == LogicTask \/ PacedReading \/ SentinelReading \/ SettleTick

SpecLimit == InitLimit /\ [][NextLimit]_vars

(***************************************************************************)
(* The two tasks around the watch channel, with a record of what was sent  *)
(* and what was received.  At most MaxSent readings are sent, of 0 mA and   *)
(* of 1 mA.                                                                *)
(***************************************************************************)
ChanReadings == { parse(Frame(61592, 0, r)) : r \in 0..1 }

RecSend ==
    /\ Len(sent) < MaxSent
    /\ BtSend
    /\ chan'.value \in ChanReadings
    /\ sent' = IF RxDropped THEN sent ELSE Append(sent, chan'.value)
    /\ UNCHANGED << got, frame, dec_pc, decoded, measured >>

Received ==
    IF chan.unseen
    THEN Append(got, [idx |-> Len(sent), reading |-> chan.value])
    ELSE got

RecRampReading ==
    /\ RampJudge
    /\ got' = Received
    /\ UNCHANGED << sent, frame, dec_pc, decoded, measured >>

RecHoldReading ==
    /\ HoldJudge
    /\ got' = Received
    /\ UNCHANGED << sent, frame, dec_pc, decoded, measured >>

NextChan ==
    \/ RecSend \/ BtReadBreak \/ BtIsConnected \/ BtDisconnect
    \/ LogicStart \/ LogicSetCurrent \/ LogicSetOutputOn
    \/ RampTop \/ RecRampReading \/ RampSetVoltageDone
    \/ HoldTop \/ RecHoldReading
    \/ LogicSetOutputOff \/ LogicDisconnect
    \/ Tick

\* both tasks have been started; one configuration is enough for the channel
InitChan ==
    /\ InitRamp
    /\ cfg.rated_voltage = 1
    /\ cfg.voltage_step = 1

SpecChan == InitChan /\ [][NextChan]_vars

(***************************************************************************)
(* The decoder on its own: parse applied to a notification of any length,  *)
(* then Reading::value applied to the reading, if there is one.            *)
(***************************************************************************)
FrameBytes(mode_and_divider, flags, unknown, raw) ==
    << mode_and_divider % 256, mode_and_divider \div 256, flags, unknown,
       raw % 256, raw \div 256 >>

FlagSamples == (0..15) \cup {16, 128, 165, 240, 245, 255}
RawSamples ==
    {0, 1, 9, 10, 12345, 32766, 32767, 32768, 32769, 45113, 65534, 65535}
UnknownCodes == {0, 8, 32768, 61440, 61456, 61480, 61608, 62312, 65528}

\* every mode with every divider; every flag byte; raw values around the
\* sign bit and the sentinel; codes outside the table
SixByteFrames ==
    { FrameBytes(c + dv, fl, 0, 1) :
        c \in ModeCodes, dv \in 0..7, fl \in {0, 10, 245} }
    \cup { FrameBytes(61592 + dv, fl, u, 1) :
             dv \in {0, 7}, fl \in FlagSamples, u \in {0, 255} }
    \cup { FrameBytes(61592 + dv, 0, 0, r) : dv \in 0..7, r \in RawSamples }
    \cup { FrameBytes(c + dv, 0, 0, 1) : c \in UnknownCodes, dv \in {0, 7} }

Prefixes(f) == { SubSeq(f, 1, n) : n \in 0..5 }

RECURSIVE Padded(_, _)
Padded(f, n) == IF n = 0 THEN f ELSE Append(Padded(f, n - 1), 255)

\* the frames above, cut short, and extended by up to MaxExtra bytes
TestFrames ==
    SixByteFrames
    \cup UNION { Prefixes(f) : f \in { FrameBytes(61592, 0, 0, 1),
                                        FrameBytes(61440, 0, 0, 1) } }
    \cup { Padded(f, n) : f \in { FrameBytes(61592, 0, 0, 1),
                                  FrameBytes(62304 + 7, 5, 0, 32767),
                                  FrameBytes(61440, 0, 0, 1) },
                          n \in 1..MaxExtra }

InitDecode ==
    /\ cfg \in Configs
    /\ cfg.rated_voltage = 0
    /\ cfg.voltage_step = 1
    /\ main_pc = "open_psu"
    /\ exit_status = -1
    /\ cancel = FALSE
    /\ bt_pc = "idle"
    /\ bt_result = "none"
    /\ timeout_timer = 0
    /\ chan = [value |-> None, unseen |-> FALSE]
    /\ logic_pc = "idle"
    /\ phase = "Idle"
    /\ res = "none"
    /\ logic_result = "none"
    /\ curr_voltage = 0
    /\ elapsed = 0
    /\ sleep_timer = 0
    /\ psu_log = << >>
    /\ first_done = "none"
    /\ reported = "none"
    /\ diag = {}
    /\ sent = << >>
    /\ got = << >>
    /\ frame \in TestFrames
    /\ dec_pc = "input"
    /\ decoded = None
    /\ measured = None

program_vars ==
    << cfg, main_vars, cancel, bt_vars, chan, logic_vars, first_done, diag >>

\* owon.rs:159: reading::parse(&value.value)
Decode ==
    /\ dec_pc = "input"
    /\ decoded' = parse(frame)
    /\ dec_pc' = "parsed"
    /\ UNCHANGED << program_vars, sent, got, frame, measured >>

\* main.rs:233: reading.value()
Evaluate ==
    /\ dec_pc = "parsed"
    /\ decoded.some
    /\ measured' = Some(value(decoded.val))
    /\ dec_pc' = "valued"
    /\ UNCHANGED << program_vars, sent, got, frame, decoded >>

NextDecode == Decode \/ Evaluate

SpecDecode == InitDecode /\ [][NextDecode]_vars

\* Scheduling: the tokio runtime runs every task that can make progress, the
\* clock advances while a timer is pending, and a select! whose cancelled()
\* or sleep() branch is ready takes it eventually, whatever notifications
\* keep arriving.
FairSpec ==
    /\ Spec
    /\ WF_vars(Main)
    /\ WF_vars(LogicTask)
    /\ WF_vars(BtReadBreakOn([kind |-> "pending"]))
    /\ WF_vars(BtIsConnected \/ BtDisconnect)
    /\ WF_vars(Tick)

TypeOK ==
    /\ cfg \in Configs
    /\ main_pc \in {"open_psu", "start_bt", "spawn_logic", "select",
                    "await_logic", "await_bt", "done"}
    /\ exit_status \in {-1, 0, 1}
    /\ cancel \in BOOLEAN
    /\ bt_pc \in {"idle", "read", "is_connected", "disconnect", "done"}
    /\ bt_result \in {"none", "ok", "err", "panic"}
    /\ timeout_timer \in 0..TimeoutTicks
    /\ chan.unseen \in BOOLEAN
    /\ logic_pc \in {"idle", "start", "sleep1", "sleep2", "ramp_top",
                     "ramp_wait", "ramp_set_voltage", "hold_top", "hold_wait",
                     "returned", "disconnect", "done"}
    /\ phase \in {"Idle", "Init", "Ramping", "Holding", "Complete", "Aborted",
                  "Cancelled", "Failed"}
    /\ res \in {"none", "ok", "PsuModbus", "BtChannelClosed", "NoBtReading",
                "WrongReadingMode", "CapCurrentLimitExceeded"}
    /\ logic_result \in {"none", "ok", "err"}
    /\ curr_voltage \in 0..MaxRated
    /\ elapsed \in 0..ElapsedCap
    /\ sleep_timer \in 0..SettleTicks
    /\ first_done \in {"none", "bt", "logic"}
    /\ reported \in {"none", "bt", "logic"}

(***************************************************************************)
(* Properties                                                              *)
(***************************************************************************)
\* comparisons of a measured value with a threshold, as the claims word them
IsNumber(a) == ~a.nan
AtLeast(a, b) == IsNumber(a) /\ a.num >= b * a.den
Below(a, b) == IsNumber(a) /\ a.num < b * a.den

\* the logic task is about to consume a DC mA reading in one of the loops
ConsumesIn(pc) ==
    /\ logic_pc = pc
    /\ logic_pc' # pc
    /\ chan.unseen
    /\ chan.value.some
    /\ chan.value.val.mode = "DcMilliAmpere"

Measured == value(chan.value.val)

SetOutputOn == PsuCommand("set_output", 1, 1)
SetOutputOff == PsuCommand("set_output", 0, 1)

Last(seq) == seq[Len(seq)]

\* C1: in Ramping and in Holding, a reading at or above current_limit ends
\* reform_cap with CapCurrentLimitExceeded (Aborted) in that very iteration,
\* at any commanded voltage and any time since the last increase, and no PSU
\* command is issued between the reading and the return.
C1_OverCurrentAborts ==
    [][ ( /\ ConsumesIn("ramp_wait") \/ ConsumesIn("hold_wait")
          /\ AtLeast(Measured, cfg.current_limit) )
        => ( /\ logic_pc' = "returned"
             /\ res' = "CapCurrentLimitExceeded"
             /\ phase' = "Aborted"
             /\ psu_log' = psu_log ) ]_vars

\* the abort happened in the middle of the ramp, inside the debounce window
C1_Witness ==
    /\ phase = "Aborted"
    /\ res = "CapCurrentLimitExceeded"
    /\ curr_voltage > 0
    /\ curr_voltage < cfg.rated_voltage
    /\ elapsed <= DebounceTicks

\* C2: however reform_cap returned, the logic task issues set_output(false)
\* after the return and before it terminates, so when the run is over and
\* set_output(true) was issued, the last command is set_output(false).
C2_OutputDisabledOnExit ==
    /\ logic_pc \in {"disconnect", "done"}
         => /\ res # "none"
            /\ psu_log # << >>
            /\ Last(psu_log) = SetOutputOff
    /\ ( /\ main_pc = "done"
         /\ \E i \in 1..Len(psu_log) : psu_log[i] = SetOutputOn )
         => /\ logic_pc = "done"
            /\ Last(psu_log) = SetOutputOff

\* the very first PSU command failed, and the output was still switched off
C2_Witness ==
    /\ logic_pc = "done"
    /\ res = "PsuModbus"
    /\ psu_log = << PsuCommand("set_voltage", 0, 1), SetOutputOff >>

\* C5: once both tasks run, the first task to finish makes the coordinator
\* cancel the shared token and then await the other task; the token is
\* cancelled whenever the coordinator awaits the second task, and main does
\* not return while a task is still running.
C5_FirstFinishCancels ==
    /\ [] ( /\ main_pc = "select" => reported = "none"
            /\ main_pc = "await_logic"
                 => cancel /\ reported = "bt" /\ bt_pc = "done"
            /\ main_pc = "await_bt"
                 => cancel /\ reported = "logic" /\ logic_pc = "done"
            /\ main_pc = "done"
                 => bt_pc \in {"idle", "done"} /\ logic_pc \in {"idle", "done"} )
    /\ (first_done # "none") ~> (cancel /\ main_pc # "select")

\* the BT task panicked, the coordinator cancelled and awaits the logic task,
\* which is still in its loop
C5_Witness ==
    /\ main_pc = "await_logic"
    /\ bt_result = "panic"
    /\ cancel
    /\ logic_pc \in {"ramp_wait", "hold_wait"}

\* C6: after both tasks were started, once the token is cancelled both tasks
\* terminate and main returns, wherever each task was, under fair scheduling.
C6_CancelTerminates ==
    (cancel /\ main_pc \in {"select", "await_logic", "await_bt"})
        ~> (main_pc = "done" /\ bt_pc = "done" /\ logic_pc = "done")

\* cancelled while the control loop was suspended in changed(): the producer
\* left, the channel closed, both tasks ended and main returned
C6_Witness ==
    /\ main_pc = "done"
    /\ cancel
    /\ res = "BtChannelClosed"
    /\ bt_pc = "done"
    /\ logic_pc = "done"
    /\ ~("Timeout waiting for notification" \in diag)

\* C8: in Holding, a reading below finish_current (and below current_limit)
\* ends reform_cap with Ok in phase Complete, and a reading at or above
\* finish_current and below current_limit leaves the loop in Holding; so the
\* first reading below finish_current completes the run.
C8_HoldingCompletes ==
    [][ ConsumesIn("hold_wait")
        => /\ ( Below(Measured, cfg.finish_current)
                /\ Below(Measured, cfg.current_limit) )
                => /\ logic_pc' = "returned"
                   /\ res' = "ok"
                   /\ phase' = "Complete"
           /\ ( AtLeast(Measured, cfg.finish_current)
                /\ Below(Measured, cfg.current_limit) )
                => /\ logic_pc' = "hold_top"
                   /\ res' = "none"
                   /\ phase' = "Holding" ]_vars

\* the run completed at the rated voltage after a full ramp
C8_Witness ==
    /\ phase = "Complete"
    /\ res = "ok"
    /\ curr_voltage = cfg.rated_voltage
    /\ cfg.rated_voltage > cfg.voltage_step

\* C3: with voltage_step > 0 and rated_voltage > 0, readings below
\* reform_current and current_limit that arrive one second apart each raise
\* the commanded voltage by voltage_step, clamped to rated_voltage, and the
\* reading after rated_voltage was commanded moves the loop to Holding.
C3_EveryPacedReadingRamps ==
    [][ ( /\ ConsumesIn("ramp_wait")
          /\ Below(Measured, cfg.reform_current)
          /\ Below(Measured, cfg.current_limit) )
        => IF curr_voltage = cfg.rated_voltage
           THEN phase' = "Holding"
           ELSE /\ curr_voltage' =
                     Min(curr_voltage + cfg.voltage_step, cfg.rated_voltage)
                /\ psu_log' = Append(psu_log,
                                     PsuCommand("set_voltage", curr_voltage', 1))
      ]_vars

\* C4: when the token is cancelled while reform_cap is suspended waiting for
\* a reading, reform_cap issues no further PSU command and returns Ok.
\* (A reading that is fatal by itself, consumed after the cancellation, is
\* left aside: the claim is about the cancellation.)
C4_CancelWhileWaiting ==
    [][ ( /\ cancel
          /\ logic_pc \in {"ramp_wait", "hold_wait"}
          /\ logic_pc' # logic_pc )
        => /\ psu_log' = psu_log
           /\ logic_pc' = "returned"
                => \/ res' = "ok"
                   \/ /\ chan.unseen
                      /\ res' \in {"NoBtReading", "WrongReadingMode",
                                   "CapCurrentLimitExceeded"} ]_vars

\* C7: every fatal condition prints a diagnostic and makes the process exit
\* non-zero; completion and clean cancellation exit zero.
FatalCondition ==
    \/ bt_pc = "idle"
    \/ "Timeout waiting for notification" \in diag
    \/ res \in {"PsuModbus", "WrongReadingMode", "CapCurrentLimitExceeded"}
    \/ res = "ok" /\ logic_result = "err"

CleanRun ==
    /\ phase \in {"Complete", "Cancelled"}
    /\ logic_result = "ok"
    /\ bt_result = "ok"
    /\ ~FatalCondition

C7_FatalExitsNonZero ==
    main_pc = "done"
        => /\ FatalCondition => (exit_status # 0 /\ diag # {})
           /\ CleanRun => exit_status = 0

\* C9: a decode failure in the producer is recovered locally: nothing is
\* published and the producer keeps waiting for the next notification.
C9_DecodeFailureSkipped ==
    [][ ( /\ bt_pc = "read"
          /\ "Invalid message received" \notin diag
          /\ "Invalid message received" \in diag' )
        => /\ bt_pc' = "read"
           /\ chan' = chan ]_vars

\* C10: the outcome of the task that finished first is the one reported, and
\* the outcome of the other task is logged without replacing it.
C10_FirstOutcomeReported ==
    (main_pc = "done" /\ reported # "none")
        => /\ reported = first_done
           /\ reported = "bt" => JoinDiag("logic", logic_result) \subseteq diag
           /\ reported = "logic" => JoinDiag("BT", bt_result) \subseteq diag

\* C11: what the control loop receives is a subsequence of what the producer
\* sent, in the order of sending: every received reading is the one sent
\* under its index, and the indices strictly increase (nothing older than,
\* or the same as, a reading already received), while readings sent between
\* two receptions may be skipped.
C11_MonotonicDelivery ==
    /\ \A i \in 1..Len(got) :
         /\ got[i].idx \in 1..Len(sent)
         /\ got[i].reading = sent[got[i].idx]
    /\ \A i \in 1..Len(got) : \A j \in 1..Len(got) :
         i < j => got[i].idx < got[j].idx

\* the first and the third reading were received, the second was dropped
C11_Witness ==
    /\ Len(sent) = 3
    /\ Len(got) = 2
    /\ got[1].idx = 1
    /\ got[2].idx = 3
    /\ sent[2] # sent[3]

\* the fields of a frame of six bytes, as the frame format defines them
FrameField16(f, i) == f[i] + 256 * f[i + 1]
FrameCode(f) == FrameField16(f, 1) - (FrameField16(f, 1) % 8)
FrameFlag(f, k) == (f[3] \div (2 ^ k)) % 2 = 1

\* C12: for a frame whose length is not exactly 6 (shorter or longer), and
\* for a frame of 6 bytes whose mode code is not in the Mode table, parse
\* returns no result.
C12_BadFramesRejected ==
    dec_pc # "input"
        => ( ( \/ Len(frame) # 6
               \/ Len(frame) = 6 /\ FrameCode(frame) \notin ModeCodes )
             => ~decoded.some )

\* C13: for a frame of 6 bytes with a mode code of the table, parse returns
\* a Reading with the variant bound to the code, the divider in the low 3
\* bits of the first field and the four flags in bits 0..3 of the flag byte,
\* whatever the other flag bits and the reserved byte.
C13_ValidFramesDecoded ==
    ( dec_pc # "input" /\ Len(frame) = 6 /\ FrameCode(frame) \in ModeCodes )
        => /\ decoded.some
           /\ <<FrameCode(frame), decoded.val.mode>> \in ModeTable
           /\ decoded.val.divider = FrameField16(frame, 1) % 8
           /\ decoded.val.hold = FrameFlag(frame, 0)
           /\ decoded.val.relative = FrameFlag(frame, 1)
           /\ decoded.val.autoranging = FrameFlag(frame, 2)
           /\ decoded.val.low_battery = FrameFlag(frame, 3)

\* a near-field frame with divider 7, flag byte 0xF5 and hold, autoranging set
C13_Witness ==
    /\ dec_pc = "parsed"
    /\ decoded.some
    /\ decoded.val.mode = "NearField"
    /\ decoded.val.divider = 7
    /\ frame[3] = 245
    /\ decoded.val.hold
    /\ ~decoded.val.relative
    /\ decoded.val.autoranging
    /\ ~decoded.val.low_battery

\* C14: with m the low 15 bits of the raw value r and d the divider, value()
\* is not-a-number when m = 0x7FFF, whatever the sign bit, and otherwise it
\* is -m / 10^d when bit 15 of r is set and +m / 10^d when it is clear.
C14_ValueOfReading ==
    dec_pc = "valued"
        => LET r == decoded.val.raw_value
               d == decoded.val.divider
               m == r % 32768
               v == measured.val
           IN  /\ d \in 0..7
               /\ m = 32767 => v.nan
               /\ m # 32767
                    => /\ ~v.nan
                       /\ v.den = 10 ^ d
                       /\ r >= 32768 => v.num = 0 - m
                       /\ r < 32768 => v.num = m

\* the sentinel with the sign bit set
C14_Witness ==
    /\ dec_pc = "valued"
    /\ decoded.val.raw_value = 65535
    /\ measured.val.nan

\* C15: in Ramping, a reading below reform_current and current_limit
\* obtained when at least 1 second has elapsed since the last increase,
\* exactly 1 second included, triggers the ramp decision in that iteration:
\* Holding at rated_voltage, otherwise a set_voltage with the raised voltage
\* (after which the debounce timer restarts).
C15_RampAtOneSecond ==
    [][ ( /\ ConsumesIn("ramp_wait")
          /\ Below(Measured, cfg.reform_current)
          /\ Below(Measured, cfg.current_limit)
          /\ elapsed >= DebounceTicks )
        => IF curr_voltage = cfg.rated_voltage
           THEN /\ phase' = "Holding"
                /\ psu_log' = psu_log
           ELSE /\ logic_pc' = "ramp_set_voltage"
                /\ psu_log' = Append(psu_log,
                       PsuCommand("set_voltage",
                           Min(curr_voltage + cfg.voltage_step,
                               cfg.rated_voltage), 1))
      ]_vars

\* C16: two consecutive voltage increases of the Ramping loop are at least
\* 1 second apart, and a reading at or above reform_current, or one that
\* arrives inside the debounce window, leaves the commanded voltage, the
\* debounce timer and the phase as they are.  (Readings below current_limit:
\* the others abort, whenever they arrive.)  The timer is at 0 when the
\* set_voltage of an increase has resolved and moves only with the clock, one
\* tick at a time, so its value at an increase is time passed since the
\* increase before.
C16_DebouncedIncreases ==
    [][ /\ ( logic_pc = "ramp_set_voltage" /\ logic_pc' = "ramp_top" )
              => elapsed' = 0
        /\ elapsed' > elapsed
              => /\ elapsed' = elapsed + 1
                 /\ logic_pc' = logic_pc
                 /\ psu_log' = psu_log
        /\ curr_voltage' > curr_voltage
              => elapsed >= DebounceTicks
        /\ ( /\ ConsumesIn("ramp_wait")
             /\ Below(Measured, cfg.current_limit)
             /\ \/ AtLeast(Measured, cfg.reform_current)
                \/ elapsed < DebounceTicks )
              => /\ curr_voltage' = curr_voltage
                 /\ elapsed' = elapsed
                 /\ phase' = phase
                 /\ psu_log' = psu_log ]_vars

\* two increases were commanded, and a later reading at reform_current or
\* above has been consumed and has changed nothing
C16_Witness ==
    /\ cfg.voltage_step = 1
    /\ curr_voltage = 2
    /\ logic_pc = "ramp_top"
    /\ phase = "Ramping"
    /\ elapsed = ElapsedCap
    /\ ~chan.unseen
    /\ chan.value.some
    /\ chan.value.val.mode = "DcMilliAmpere"
    /\ AtLeast(value(chan.value.val), cfg.reform_current)
    /\ Len(psu_log) = 5

\* C17: with rated_voltage >= 0 and voltage_step > 0, the value of every
\* set_voltage command lies between 0 and rated_voltage, the commanded
\* voltage never decreases, and each increase is by
\* min(voltage_step, rated_voltage - commanded voltage).
C17_VoltageBounded ==
    [][ /\ \A i \in 1..Len(psu_log') :
             psu_log'[i].op = "set_voltage"
                => /\ psu_log'[i].num >= 0
                   /\ psu_log'[i].num <= cfg.rated_voltage * psu_log'[i].den
        /\ curr_voltage' >= curr_voltage
        /\ curr_voltage' # curr_voltage
             => /\ curr_voltage' - curr_voltage =
                     Min(cfg.voltage_step, cfg.rated_voltage - curr_voltage)
                /\ psu_log' = Append(psu_log,
                       PsuCommand("set_voltage", curr_voltage', 1)) ]_vars

\* an increase that was clamped: the step is larger than what was left
C17_Witness ==
    /\ cfg.rated_voltage = 1
    /\ cfg.voltage_step = 2
    /\ curr_voltage = 1
    /\ logic_pc = "ramp_set_voltage"
    /\ Last(psu_log) = PsuCommand("set_voltage", 1, 1)

\* no set_voltage command is appended to the log in this step
NoVoltageCommand ==
    \A i \in (Len(psu_log) + 1)..Len(psu_log') :
        psu_log'[i].op # "set_voltage"

\* the phases from Holding on
FromHolding == {"Holding", "Complete", "Aborted", "Cancelled", "Failed"}

\* C18: the loop enters Holding only where the commanded voltage equals
\* rated_voltage, the commanded voltage stays there throughout Holding, and
\* no set_voltage command is issued after the transition to Holding.
C18_HoldingAtRated ==
    [][ /\ ( phase # "Holding" /\ phase' = "Holding" )
              => /\ phase = "Ramping"
                 /\ curr_voltage = cfg.rated_voltage
        /\ phase' = "Holding" => curr_voltage' = cfg.rated_voltage
        /\ phase \in FromHolding
              => /\ phase' \in FromHolding
                 /\ curr_voltage' = curr_voltage
                 /\ NoVoltageCommand ]_vars

\* a reading at reform_current or above was consumed in Holding, after a ramp
\* in two steps, and the loop goes on holding
C18_Witness ==
    /\ phase = "Holding"
    /\ logic_pc = "hold_top"
    /\ cfg.rated_voltage = 2
    /\ curr_voltage = 2
    /\ ~chan.unseen
    /\ chan.value.some
    /\ chan.value.val.mode = "DcMilliAmpere"
    /\ AtLeast(value(chan.value.val), cfg.reform_current)

\* the logic task is about to consume a reading of another mode than DC mA
ConsumesOtherMode ==
    /\ logic_pc \in {"ramp_wait", "hold_wait"}
    /\ logic_pc' # logic_pc
    /\ chan.unseen
    /\ chan.value.some
    /\ chan.value.val.mode # "DcMilliAmpere"

\* C19: in Ramping and in Holding, a consumed reading whose mode is not DC
\* milliampere ends reform_cap with WrongReadingMode, which is neither
\* CapCurrentLimitExceeded nor the closed-channel error, whatever the value
\* of the reading, and no voltage command is issued for it.
C19_WrongModeFails ==
    [][ ConsumesOtherMode
        => /\ logic_pc' = "returned"
           /\ res' = "WrongReadingMode"
           /\ res' \notin {"CapCurrentLimitExceeded", "BtChannelClosed"}
           /\ phase' = "Failed"
           /\ psu_log' = psu_log
           /\ curr_voltage' = curr_voltage ]_vars

\* a DC V reading whose value is above current_limit has ended the run
C19_Witness ==
    /\ logic_pc = "returned"
    /\ res = "WrongReadingMode"
    /\ ~chan.unseen
    /\ chan.value.some
    /\ chan.value.val.mode = "DcVolt"
    /\ AtLeast(value(chan.value.val), cfg.current_limit)
    /\ Last(psu_log) = SetOutputOn

\* set_output(true) has been issued
OutputEnabled == \E i \in 1..Len(psu_log) : psu_log[i] = SetOutputOn

\* reform_cap, which is still running, issues a PSU command in this step
ReformCapIssues ==
    /\ logic_pc \notin {"idle", "returned", "disconnect", "done"}
    /\ Len(psu_log') = Len(psu_log) + 1

\* C20: reform_cap issues set_voltage(0), then set_current(psu_current_limit
\* in amps), then set_output(true); set_output(true) is issued only when both
\* earlier commands have succeeded; before it no reading is consumed and no
\* other voltage command is issued.
C20_InitialCommands ==
    [][ /\ ( ReformCapIssues /\ Len(psu_log) = 0 )
              => Last(psu_log') = PsuCommand("set_voltage", 0, 1)
        /\ ( ReformCapIssues /\ Len(psu_log) = 1 )
              => /\ Last(psu_log').op = "set_current"
                 /\ Last(psu_log').num * 1000
                        = cfg.psu_current_limit * Last(psu_log').den
        /\ ( ReformCapIssues /\ Len(psu_log) = 2 )
              => Last(psu_log') = SetOutputOn
        /\ ( Len(psu_log') > Len(psu_log) /\ Last(psu_log') = SetOutputOn )
              => /\ ReformCapIssues
                 /\ res = "none"
                 /\ psu_log = << PsuCommand("set_voltage", 0, 1),
                                 PsuCommand("set_current",
                                            cfg.psu_current_limit, 1000) >>
        /\ ( chan.unseen /\ ~chan'.unseen ) => OutputEnabled
        /\ ( ReformCapIssues /\ ~OutputEnabled
             /\ Last(psu_log').op = "set_voltage" )
              => psu_log = << >> ]_vars

\* the output has just been enabled; a reading was published during the
\* settling sleeps and has not been consumed
C20_Witness ==
    /\ Len(psu_log) = 3
    /\ psu_log[3] = SetOutputOn
    /\ logic_pc = "ramp_top"
    /\ phase = "Ramping"
    /\ chan.unseen

\* the logic task is about to consume a DC mA reading with magnitude 0x7FFF
ConsumesSentinel ==
    /\ ConsumesIn("ramp_wait") \/ ConsumesIn("hold_wait")
    /\ chan.value.val.raw_value % 32768 = 32767

\* C21: a DC mA reading with the out-of-range sentinel consumed in Ramping
\* or in Holding ends reform_cap with CapCurrentLimitExceeded, for every
\* current_limit: it does not raise the voltage, does not move the loop to
\* Holding and does not complete the run.
C21_SentinelAborts ==
    [][ ConsumesSentinel
        => /\ logic_pc' = "returned"
           /\ res' = "CapCurrentLimitExceeded"
           /\ phase' = "Aborted"
           /\ curr_voltage' = curr_voltage
           /\ psu_log' = psu_log ]_vars

\* the sentinel with the sign bit set has ended a run after an increase of
\* the voltage, under a current limit above every magnitude
C21_Witness ==
    /\ logic_pc = "returned"
    /\ res = "CapCurrentLimitExceeded"
    /\ phase = "Aborted"
    /\ cfg.current_limit = 40000
    /\ curr_voltage > 0
    /\ ~chan.unseen
    /\ chan.value.some
    /\ chan.value.val.raw_value = 65535

=============================================================================
